---- MODULE Spec2Model ----
(***************************************************************************)
(* A model of emp::MatchBin (source/tools/MatchBin.h): the container's     *)
(* three tables, its uids list and its uid counter, with one action per    *)
(* public operation.  Its metric is NextUpMetric<MaxTag>; its selector is  *)
(* RankedSelector<> or RouletteSelector<>, fixed at construction.  The     *)
(* selectors are also called on their own, with any threshold.             *)
(***************************************************************************)
EXTENDS Integers, Sequences, FiniteSets, TLC

\* ------------------------------------------------------------------ bounds
\* uid_t is size_t; the model counts modulo NumUids instead of 2^64.
NumUids == 3
\* Tags and queries are the size_t values 0..MaxTag (NextUpMetric<MaxTag>).
MaxTag == 1
\* Regulator operations whose result would exceed MaxReg are not explored.
MaxReg == 1
\* Match is called with n in 0..MaxN.
MaxN == 1
\* A selector called on its own gets a list of up to MaxSelUids uids (5 is
\* the shortest list on which n = 2 takes the selection branch), scores in
\* 0..MaxScore, n in 0..MaxSelN and a threshold in 0..MaxScore-1 or none.
MaxSelUids == 5
MaxScore == 2
MaxSelN == 2
\* emp::Random returns to the same state after RandPeriod draws.
RandPeriod == 3
\* A DynamicSelector holds up to MaxChildren selectors and is called on a
\* list of up to MaxDynUids uids.
MaxChildren == 2
MaxDynUids == 2
\* A metric called on its own gets bit strings of every width 1..MaxWidth.
MaxWidth == 3
\* size_t has SizeBits bits and int has IntBits bits in the metrics (64 and
\* 32 in the build); a double has DBL_MANT_DIG significant bits (53 in the
\* build), every operation rounding to nearest, ties to even.  NextUp<Max>
\* called on its own gets every Max within MaxMax of 0, of SIZE_MAX / 2 and
\* of SIZE_MAX, and arguments within MaxMax of 0 and of Max.
SizeBits == 12
MaxMax == 2
IntBits == 3
DBL_MANT_DIG == 4

AllUids == 0 .. (NumUids - 1)
Tags == 0 .. MaxTag
Vals == {"a", "b"}
\* amounts handed to AdjRegulator and SetRegulator
Amts == (0 - 1) .. MaxReg

VARIABLES
  values,       \* std::unordered_map<uid_t, Val>
  regulators,   \* std::unordered_map<uid_t, double>
  tags,         \* std::unordered_map<uid_t, tag_t>
  uids,         \* emp::vector<uid_t>
  uid_stepper,  \* uid_t
  selector,     \* the Selector template argument: "Ranked" or "Roulette"
  NDEBUG,       \* TRUE: emp_assert compiles to nothing; FALSE: it aborts
  rand,         \* emp::Random: its position in its cycle of RandPeriod draws
  lastOp,       \* history: the last public call, its arguments and outcome
  issued,       \* history: every uid a Put has returned so far
  wrapped,      \* history: ++uid_stepper has overflowed to 0 at least once
  call          \* a selector called on its own: the arguments, then the outcomes

vars == <<values, regulators, tags, uids, uid_stepper, selector, NDEBUG, rand,
          lastOp, issued, wrapped, call>>

bin == <<values, regulators, tags, uids, uid_stepper>>

\* ------------------------------------------------- unordered_map, vector
EmptyTable == [u \in {} |-> 0]

\* unordered_map::find(k) != end()
Has(table, k) == k \in DOMAIN table

\* mutant: the assignment leaves the new entry alone in the table
AssignOnly(table, k, v) == [u \in {k} |-> v]

\* table[k] = v  (operator[] followed by assignment)
Assign(table, k, v) ==
  [u \in (DOMAIN table) \cup {k} |-> IF u = k THEN v ELSE table[u]]

\* unordered_map::erase(k)
Erase(table, k) == [u \in (DOMAIN table) \ {k} |-> table[u]]

\* mutant: operator[] used as a read stores the default over the entry
TouchResets(table, keys, dflt) == [u \in (DOMAIN table) \cup keys |-> dflt]

\* operator[] used as a read: inserts a value-initialised entry when absent
Touch(table, keys, dflt) ==
  [u \in (DOMAIN table) \cup keys |-> IF u \in DOMAIN table THEN table[u] ELSE dflt]

\* mutant: std::remove without the erase, the vector keeps its length
RemoveNoErase(s, uid) == SelectSeq(s, LAMBDA x : x # uid) \o SelectSeq(s, LAMBDA x : x = uid)

\* mutant: removal by overwriting the element with the last one and popping
RemoveSwapPop(s, uid) ==
  IF \E i \in 1 .. Len(s) : s[i] = uid
  THEN LET i == CHOOSE k \in 1 .. Len(s) : s[k] = uid
       IN  SubSeq([k \in 1 .. Len(s) |-> IF k = i THEN s[Len(s)] ELSE s[k]], 1, Len(s) - 1)
  ELSE s

\* uids.erase(std::remove(uids.begin(), uids.end(), uid), uids.end())
Remove(s, uid) == SelectSeq(s, LAMBDA x : x # uid)

Range(s) == {s[i] : i \in 1 .. Len(s)}

\* mutant: the swap copies one way only, s[j] over s[i]
SwapOverwrite(s, i, j) == [s EXCEPT ![i] = s[j]]

\* std::swap(s[i], s[j]), 1-based
Swap(s, i, j) ==
  [k \in 1 .. Len(s) |-> IF k = i THEN s[j] ELSE IF k = j THEN s[i] ELSE s[k]]

\* MatchBin::Size
Size == Cardinality(DOMAIN values)

\* ------------------------------------------------------------ history
\* op: the operation; uid: its uid argument, for Put the uid it returned
\* (-1 when it threw), for Match the query; arg: the amount of a regulator
\* call, the n of Match, the number of list elements a Delete removed, the
\* value and the tag of a Put that succeeded;
\* err: "none", the exception thrown, or "abort"; res: what Match returned
Op(op, uid, arg, err, res) ==
  [op |-> op, uid |-> uid, arg |-> arg, err |-> err, res |-> res]

\* an emp_assert failed in a build that checks assertions: the process is gone
Aborted == lastOp.err = "abort"

\* emp_assert(cond), the assertion macro of base/assert.h: it compiles to
\* nothing under NDEBUG; otherwise a false cond ends the process.
\* TRUE when execution continues past the assertion.
emp_assert(cond) == NDEBUG \/ cond

\* ------------------------------------------------------------ metric
SIZE_MAX == 2 ^ SizeBits - 1
INT_MAX == 2 ^ (IntBits - 1) - 1
INT_MIN == 0 - INT_MAX - 1

\* what an operation of undefined behaviour can give: any value of the
\* result type in S, or the end of the process
Undefined(S) ==
  {[err |-> "undefined", val |-> x] : x \in S} \cup {[err |-> "crash", val |-> 0]}

\* the one outcome of a call that returns val
Returns(val) == {[err |-> "none", val |-> val]}

\* emp::BitSet<Width>: the bits as a tuple, position 1 the least significant
BitSets(Width) == [1 .. Width -> {0, 1}]

\* BitSet::operator^
BitXor(a, b) == [i \in 1 .. Len(a) |-> (a[i] + b[i]) % 2]

\* BitSet::operator~
BitNot(a) == [i \in 1 .. Len(a) |-> 1 - a[i]]

\* BitSet::CountOnes
CountOnes(a) == Cardinality({i \in 1 .. Len(a) : a[i] = 1})

\* BitSet::LongestSegmentOnes: the length of the longest run of one bits
LongestSegmentOnes(a) ==
  LET runs == {k \in 0 .. Len(a) :
                 \E i \in 1 .. (Len(a) - k + 1) : \A j \in i .. (i + k - 1) : a[j] = 1}
  IN  CHOOSE k \in runs : \A l \in runs : l <= k

\* BitSet::GetUInt(0) for Width <= 32: the bits as an unsigned integer
RECURSIVE GetUInt(_)
GetUInt(a) ==
  IF a = <<>> THEN 0 ELSE a[1] + 2 * GetUInt(Tail(a))

\* A double is the fraction <<n, d>>, d a power of two.
\* 2^e <= n/d < 2^(e+1)
RECURSIVE Exponent(_, _)
Exponent(n, d) ==
  IF n >= 2 * d THEN Exponent(n, 2 * d) + 1
  ELSE IF n < d THEN Exponent(2 * n, d) - 1
  ELSE 0

\* the double nearest to n/d >= 0 (ties to even)
RoundMagnitude(n, d) ==
  IF n = 0 THEN <<0, 1>>
  ELSE LET q == DBL_MANT_DIG - 1 - Exponent(n, d)
           num == IF q >= 0 THEN n * 2 ^ q ELSE n
           den == IF q >= 0 THEN d ELSE d * 2 ^ (0 - q)
           m == num \div den
           rem == num - m * den
           up == 2 * rem > den \/ (2 * rem = den /\ m % 2 = 1)
           mm == IF up THEN m + 1 ELSE m
       IN  IF q >= 0 THEN <<mm, 2 ^ q>> ELSE <<mm * 2 ^ (0 - q), 1>>

\* the double nearest to n/d: the sign and the rounded magnitude
Round(n, d) ==
  IF n < 0 THEN LET r == RoundMagnitude(0 - n, d) IN <<0 - r[1], r[2]>>
  ELSE RoundMagnitude(n, d)

\* std::numeric_limits<double>::infinity(), greater than every fraction
Infinity == <<1, 0>>

\* (double) x for an integer x
Double(x) == Round(x, 1)

\* double +, - and /
DAdd(x, y) == Round(x[1] * y[2] + y[1] * x[2], x[2] * y[2])
DSub(x, y) == Round(x[1] * y[2] - y[1] * x[2], x[2] * y[2])
DDiv(x, y) == Round(x[1] * y[2], x[2] * y[1])

\* double <, ==
DLess(x, y) == x[1] * y[2] < y[1] * x[2]
DEq(x, y) == x[1] * y[2] = y[1] * x[2]

\* std::min(a, b) on doubles: b when b < a, else a
StdMin(a, b) == IF DLess(b, a) THEN b ELSE a

\* HammingMetric<Width>::operator()(a, b)
HammingMetric(a, b) == CountOnes(BitXor(a, b))

\* AbsDiffMetric::operator()(a, b): a - b and std::abs are int operations,
\* undefined when their result is no int
AbsDiffMetric(a, b) ==
  LET d == a - b
  IN  IF d < INT_MIN \/ d > INT_MAX THEN Undefined(INT_MIN .. INT_MAX)
      ELSE IF d = INT_MIN THEN Undefined(INT_MIN .. INT_MAX)
      ELSE Returns(IF d < 0 THEN 0 - d ELSE d)

\* NextUpMetric<Max>::operator()(a, b), size_t arithmetic modulo 2^SizeBits,
\* for Max + 1 that does not wrap to 0
NextUpMetric(Max, a, b) ==
  LET modulus == (Max + 1) % 2 ^ SizeBits
      sum == (modulus + b) % 2 ^ SizeBits
      difference == ((sum + 2 ^ SizeBits - a) % 2 ^ SizeBits) % modulus
  IN  difference % modulus

\* NextUpMetric<Max>: % (Max + 1) divides by zero when Max is SIZE_MAX
NextUpOutcomes(Max, a, b) ==
  IF (Max + 1) % 2 ^ SizeBits = 0 THEN Undefined(0 .. SIZE_MAX)
  ELSE Returns(NextUpMetric(Max, a, b))

\* StreakMetric<Width>::ProbabilityKBitSequence(k)
ProbabilityKBitSequence(Width, k) == DDiv(Round(Width - k + 1, 1), Round(2 ^ k, 1))

\* mutant: the match score is returned, not 1.0 - match
StreakMetricMatch(a, b) ==
  LET bs == BitXor(a, b)
      same == LongestSegmentOnes(BitNot(bs))
      different == LongestSegmentOnes(bs)
      ps == ProbabilityKBitSequence(Len(a), same)
      pd == ProbabilityKBitSequence(Len(a), different)
  IN  DDiv(pd, DAdd(ps, pd))

\* StreakMetric<Width>::operator()(a, b)
StreakMetric(a, b) ==
  LET bs == BitXor(a, b)
      same == LongestSegmentOnes(BitNot(bs))
      different == LongestSegmentOnes(bs)
      ps == ProbabilityKBitSequence(Len(a), same)
      pd == ProbabilityKBitSequence(Len(a), different)
      match == DDiv(pd, DAdd(ps, pd))
  IN  DSub(<<1, 1>>, match)

\* mutant: a - b whichever of the two is greater
AbsIntDiffNoOrder(a, b) == GetUInt(a) - GetUInt(b)

\* AbsIntDiffMetric<Width>::operator()(a, b), Width <= 32
AbsIntDiffMetric(a, b) ==
  IF GetUInt(a) > GetUInt(b) THEN GetUInt(a) - GetUInt(b)
  ELSE GetUInt(b) - GetUInt(a)

\* the container's metric object: NextUpMetric<MaxTag>
metric(query, tag) == NextUpMetric(MaxTag, query, tag)

\* --------------------------------------------------------- selectors
\* mutant: a score equal to the threshold is not within it
LeqThreshStrict(score, tn, td) == tn < 0 \/ score * td < tn

\* A ratio tn/td with tn < 0 stands for +infinity.  score <= thresh
LeqThresh(score, tn, td) == tn < 0 \/ score * td <= tn

\* n < std::log2(size) for a size_t n: log2(0) is -infinity
LessThanLog2(n, size) == size > 0 /\ 2 ^ n < size

\* mutant: the inner loop without its scores.at(uids[j]) <= thresh test
RECURSIVE MinIndexFromNoThresh(_, _, _, _, _, _)
MinIndexFromNoThresh(u, scores, j, minIndex, tn, td) ==
  IF j > Len(u) THEN minIndex
  ELSE IF minIndex = 0 \/ scores[u[j]] < scores[u[minIndex]]
       THEN MinIndexFromNoThresh(u, scores, j + 1, j, tn, td)
       ELSE MinIndexFromNoThresh(u, scores, j + 1, minIndex, tn, td)

\* The inner loop of the selection sort, from 1-based position j on;
\* minIndex = 0 stands for the code's -1.
RECURSIVE MinIndexFrom(_, _, _, _, _, _)
MinIndexFrom(u, scores, j, minIndex, tn, td) ==
  IF j > Len(u) THEN minIndex
  ELSE IF /\ (minIndex = 0 \/ scores[u[j]] < scores[u[minIndex]])
          /\ LeqThresh(scores[u[j]], tn, td)
       THEN MinIndexFrom(u, scores, j + 1, j, tn, td)
       ELSE MinIndexFrom(u, scores, j + 1, minIndex, tn, td)

\* The bounded selection sort: back counts the positions already filled.
RECURSIVE SelectionSort(_, _, _, _, _, _)
SelectionSort(u, scores, n, back, tn, td) ==
  IF back >= n THEN [uids |-> u, back |-> back]
  ELSE LET minIndex == MinIndexFrom(u, scores, back + 1, 0, tn, td)
       IN  IF minIndex = 0 THEN [uids |-> u, back |-> back]
           ELSE SelectionSort(Swap(u, back + 1, minIndex), scores, n, back + 1, tn, td)

\* mutant: std::sort with the comparison turned round, greatest score first
RECURSIVE StdSortDescending(_, _)
StdSortDescending(u, scores) ==
  IF u = <<>> THEN {<<>>}
  ELSE UNION {{<<u[i]>> \o p :
                 p \in StdSortDescending(SubSeq(u, 1, i - 1) \o SubSeq(u, i + 1, Len(u)),
                                         scores)} :
              i \in {i \in 1 .. Len(u) :
                       \A j \in 1 .. Len(u) : ~(scores[u[i]] < scores[u[j]])}}

\* std::sort(uids.begin(), uids.end(), by score): every ordering of the same
\* elements in which no element precedes one of strictly smaller score
\* (std::sort is not stable: the order of equal scores is unspecified).
\* Any element of the least score can come first, then the rest is sorted.
RECURSIVE StdSort(_, _)
StdSort(u, scores) ==
  IF u = <<>> THEN {<<>>}
  ELSE UNION {{<<u[i]>> \o p :
                 p \in StdSort(SubSeq(u, 1, i - 1) \o SubSeq(u, i + 1, Len(u)), scores)} :
              i \in {i \in 1 .. Len(u) :
                       \A j \in 1 .. Len(u) : ~(scores[u[j]] < scores[u[i]])}}

\* mutant: the prefix loop without its back < n test
RECURSIVE PrefixWithinNoN(_, _, _, _, _, _)
PrefixWithinNoN(u, scores, n, back, tn, td) ==
  IF back < Len(u) /\ LeqThresh(scores[u[back + 1]], tn, td)
  THEN PrefixWithinNoN(u, scores, n, back + 1, tn, td)
  ELSE back

\* while (back < uids.size() && back < n && scores.at(uids[back]) <= thresh) ++back
RECURSIVE PrefixWithin(_, _, _, _, _, _)
PrefixWithin(u, scores, n, back, tn, td) ==
  IF back < Len(u) /\ back < n /\ LeqThresh(scores[u[back + 1]], tn, td)
  THEN PrefixWithin(u, scores, n, back + 1, tn, td)
  ELSE back

\* the branch of RankedSelector taken when n < log2(uids.size()), and the
\* return statement after it
SelectionBranch(u, scores, n, tn, td) ==
  LET r == SelectionSort(u, scores, n, 0, tn, td)
  IN  {[uids |-> r.uids, err |-> "none", res |-> SubSeq(r.uids, 1, r.back)]}

\* the else branch of RankedSelector, and the return statement after it
SortBranch(u, scores, n, tn, td) ==
  {[uids |-> p, err |-> "none",
    res |-> SubSeq(p, 1, PrefixWithin(p, scores, n, 0, tn, td))] :
   p \in StdSort(u, scores)}

\* RankedSelector<ratio<tn,td>>::operator(): the possible outcomes, each the
\* uids list as the call leaves it and the vector it returns
RankedSelector(u, scores, n, tn, td) ==
  IF LessThanLog2(n, Len(u)) THEN SelectionBranch(u, scores, n, tn, td)
  ELSE SortBranch(u, scores, n, tn, td)

\* mutant: the partitioning loop counts the uids within the threshold
\* without swapping them to the front
RECURSIVE PartitionFromNoSwap(_, _, _, _, _, _)
PartitionFromNoSwap(u, scores, i, partition, tn, td) ==
  IF i > Len(u) THEN [uids |-> u, partition |-> partition]
  ELSE IF LeqThresh(scores[u[i]], tn, td)
       THEN PartitionFromNoSwap(u, scores, i + 1, partition + 1, tn, td)
       ELSE PartitionFromNoSwap(u, scores, i + 1, partition, tn, td)

\* RouletteSelector: the partitioning loop from 1-based position i on;
\* partition counts the uids already swapped to the front.
RECURSIVE PartitionFrom(_, _, _, _, _, _)
PartitionFrom(u, scores, i, partition, tn, td) ==
  IF i > Len(u) THEN [uids |-> u, partition |-> partition]
  ELSE IF LeqThresh(scores[u[i]], tn, td)
       THEN PartitionFrom(Swap(u, i, partition + 1), scores, i + 1, partition + 1, tn, td)
       ELSE PartitionFrom(u, scores, i + 1, partition, tn, td)

\* the emp_asserts of the partitioning loop: scores[uids[i]] >= 0
RouletteScoresOk(u, scores) == \A i \in 1 .. Len(u) : scores[u[i]] >= 0

\* RouletteSelector's default SkewRatio = std::ratio<1, 10> and
\* MaxBaselineRatio = std::ratio<1, 1>
SkewNum == 1
SkewDen == 10
MaxBaselineNum == 1
MaxBaselineDen == 1

\* const double skew = ((double) SkewRatio::num / SkewRatio::den)
skew == DDiv(Double(SkewNum), Double(SkewDen))

\* const double max_baseline: a negative numerator stands for +infinity
max_baseline ==
  IF MaxBaselineNum < 0 THEN Infinity
  ELSE DDiv(Double(MaxBaselineNum), Double(MaxBaselineDen))

\* mutant: min_score is the score of the first uid only
MinScoreFirstOnly(u, scores, i, min_score) ==
  IF i > Len(u) THEN min_score ELSE Double(scores[u[i]])

\* min_score = std::min(min_score, scores[uids[i]]) in the partitioning
\* loop, from 1-based position i on: the loop reads position i before it
\* swaps it, and a swap moves nothing that is still to be read
RECURSIVE MinScoreFrom(_, _, _, _)
MinScoreFrom(u, scores, i, min_score) ==
  IF i > Len(u) THEN min_score
  ELSE MinScoreFrom(u, scores, i + 1, StdMin(min_score, Double(scores[u[i]])))

\* const double baseline = std::min(min_score, max_baseline)
Baseline(u, scores) == StdMin(MinScoreFrom(u, scores, 1, Infinity), max_baseline)

\* mutant: the baseline is not subtracted
WeightNoBaseline(score, baseline) ==
  DDiv(Double(1), DAdd(skew, Double(score)))

\* 1.0 / ( skew + scores[uids[p]] - baseline ), evaluated left to right
Weight(score, baseline) ==
  DDiv(Double(1), DSub(DAdd(skew, Double(score)), baseline))

\* every emp_assert of RouletteSelector::operator(): skew > 0, each score
\* >= 0, baseline >= 0, baseline <= max_baseline, and score - baseline >= 0
\* for each uid of the partition
RouletteAssertions(u, scores, tn, td) ==
  LET r == PartitionFrom(u, scores, 1, 0, tn, td)
      baseline == Baseline(u, scores)
  IN  /\ DLess(Double(0), skew)
      /\ RouletteScoresOk(u, scores)
      /\ ~DLess(baseline, Double(0))
      /\ ~DLess(max_baseline, baseline)
      /\ \A p \in 1 .. r.partition :
           ~DLess(DSub(Double(scores[r.uids[p]]), baseline), Double(0))

\* IndexMap::Index(match_pos) with match_pos drawn from [0, GetWeight()):
\* the 1-based positions of the index a draw can land on, every item of the
\* index having a positive weight
Index(num_items) == 1 .. num_items

\* The n draws rand.GetDouble(match_index.GetWeight()), match_index.Index(pos),
\* res.push_back(uids[idx]).  Every weight 1/(skew + score - baseline) of the
\* partition is positive, so a draw can give any position of the partition.
\* The loop runs n times whatever the partition holds: on an index of no
\* items there is no position to land on and uids[idx] is read outside the
\* prefix, so the call ends the process or pushes n arbitrary uids.
RouletteDraws(u, partition, n) ==
  IF n = 0 THEN {[err |-> "none", res |-> <<>>]}
  ELSE IF Index(partition) # {}
  THEN {[err |-> "none", res |-> [j \in 1 .. n |-> u[pick[j]]]] :
          pick \in [1 .. n -> Index(partition)]}
  ELSE {[err |-> "abort", res |-> <<>>]} \cup
       {[err |-> "undefined", res |-> g] : g \in [1 .. n -> AllUids]}

\* rand.GetDouble(max) on the generator at position r: one uniform draw
GetDouble(r) == (r + 1) % RandPeriod

\* mutant: every pass of the loop draws twice
DrawsTwice(r, n) == (r + 2 * n) % RandPeriod

\* the generator after the n passes of the sampling loop, each calling
\* rand.GetDouble once
RECURSIVE Draws(_, _)
Draws(r, n) == IF n = 0 THEN r ELSE Draws(GetDouble(r), n - 1)

\* the generator after a call of RouletteSelector with outcome o: a call
\* that ends the process before or in its first draw leaves no generator to
\* look at, a call that returns has gone through the n passes
RouletteRand(r, o, n) == IF o.err = "abort" THEN r ELSE Draws(r, n)

\* RouletteSelector<ratio<tn,td>, ...>::operator()
RouletteSelector(u, scores, n, tn, td) ==
  IF ~emp_assert(RouletteAssertions(u, scores, tn, td))
  THEN {[uids |-> u, err |-> "abort", res |-> <<>>]}
  ELSE LET r == PartitionFrom(u, scores, 1, 0, tn, td)
       IN  {[uids |-> r.uids, err |-> d.err, res |-> d.res] :
              d \in RouletteDraws(r.uids, r.partition, n)}

\* the default ThreshRatio = std::ratio<-1,1> of both selectors
ThreshNum == 0 - 1
ThreshDen == 1

\* the selectors a DynamicSelector can hold: objects of the two selector
\* types with their default template arguments
SelectorKinds == {"Ranked", "Roulette"}

\* (*ptr)(uids, scores, n) on a pointer to a selector of the kind
Child(kind, u, scores, n) ==
  IF kind = "Ranked" THEN RankedSelector(u, scores, n, ThreshNum, ThreshDen)
  ELSE RouletteSelector(u, scores, n, ThreshNum, ThreshDen)

\* DynamicSelector::operator(): emp_assert(mode < selectors.size()), then
\* (*selectors[mode])(uids, scores, n); selectors[mode] is selectors[mode + 1]
\* here.  With the assertion compiled out and mode out of range the vector
\* is read past its end and what is found there is called as a selector:
\* the process ends or some selector code runs on the arguments.
DynamicSelector(selectors, mode, u, scores, n) ==
  IF ~emp_assert(mode < Len(selectors))
  THEN {[uids |-> u, err |-> "abort", res |-> <<>>]}
  ELSE IF mode < Len(selectors) THEN Child(selectors[mode + 1], u, scores, n)
  ELSE {[uids |-> u, err |-> "crash", res |-> <<>>]} \cup
       {[uids |-> r.uids, err |-> "undefined", res |-> r.res] :
          r \in UNION {Child(k, u, scores, n) : k \in SelectorKinds}}

\* ---------------------------------------------------------- MatchBin
\* no selector has been called on its own
NoCall == [phase |-> "none"]

\* MatchBin::MatchBin
Constructed ==
  /\ values = EmptyTable
  /\ regulators = EmptyTable
  /\ tags = EmptyTable
  /\ uids = <<>>
  /\ uid_stepper = 0
  /\ selector \in {"Ranked", "Roulette"}
  /\ NDEBUG \in BOOLEAN
  /\ rand = 0
  /\ lastOp = Op("new", 0 - 1, 0, "none", <<>>)
  /\ issued = {}
  /\ wrapped = FALSE

Init == Constructed /\ call = NoCall

\* mutant: the scan takes the next counter value without looking it up
PutScanNoFind(vals, orig, stepper) ==
  [full |-> FALSE, stepper |-> (stepper + 1) % NumUids]

\* mutant: the wrap test comes before the lookup, so the scan gives up on
\* reaching orig even when orig itself is free
RECURSIVE PutScanEarlyFull(_, _, _)
PutScanEarlyFull(vals, orig, stepper) ==
  LET next == (stepper + 1) % NumUids
  IN  IF next = orig THEN [full |-> TRUE, stepper |-> next]
      ELSE IF Has(vals, next) THEN PutScanEarlyFull(vals, orig, next)
      ELSE [full |-> FALSE, stepper |-> next]

\* mutant: the wrap test compares against orig + 1, so a full container is
\* reported one step early, with the counter left one behind where it started
RECURSIVE PutScanFullMoves(_, _, _)
PutScanFullMoves(vals, orig, stepper) ==
  LET next == (stepper + 1) % NumUids
  IN  IF Has(vals, next)
      THEN IF (next + 1) % NumUids = orig THEN [full |-> TRUE, stepper |-> next]
           ELSE PutScanFullMoves(vals, orig, next)
      ELSE [full |-> FALSE, stepper |-> next]

\* the scan of Put: while (values.find(++uid_stepper) != values.end())
\*                     if (uid_stepper == orig) throw
RECURSIVE PutScan(_, _, _)
PutScan(vals, orig, stepper) ==
  LET next == (stepper + 1) % NumUids
  IN  IF Has(vals, next)
      THEN IF next = orig THEN [full |-> TRUE, stepper |-> next]
           ELSE PutScan(vals, orig, next)
      ELSE [full |-> FALSE, stepper |-> next]

\* mutant: the new uid goes to the front of the uids list
PutFront(v, t) ==
  /\ ~Aborted
  /\ LET r == PutScan(values, uid_stepper, uid_stepper)
     IN  /\ uid_stepper' = r.stepper
         /\ wrapped' = (wrapped \/ r.stepper <= uid_stepper)
         /\ IF r.full
            THEN /\ UNCHANGED <<values, regulators, tags, uids, issued>>
                 /\ lastOp' = Op("Put", 0 - 1, 0, "container full", <<>>)
            ELSE /\ values' = Assign(values, r.stepper, v)
                 /\ regulators' = Assign(regulators, r.stepper, 1)
                 /\ tags' = Assign(tags, r.stepper, t)
                 /\ uids' = <<r.stepper>> \o uids
                 /\ issued' = issued \cup {r.stepper}
                 /\ lastOp' = Op("Put", r.stepper, <<v, t>>, "none", <<>>)
  /\ UNCHANGED <<selector, NDEBUG, rand, call>>

\* mutant: the scan runs on a copy of the counter, which stays where it was
PutKeepsStepper(v, t) ==
  /\ ~Aborted
  /\ LET r == PutScan(values, uid_stepper, uid_stepper)
     IN  /\ UNCHANGED uid_stepper
         /\ wrapped' = (wrapped \/ r.stepper <= uid_stepper)
         /\ IF r.full
            THEN /\ UNCHANGED <<values, regulators, tags, uids, issued>>
                 /\ lastOp' = Op("Put", 0 - 1, 0, "container full", <<>>)
            ELSE /\ values' = Assign(values, r.stepper, v)
                 /\ regulators' = Assign(regulators, r.stepper, 1)
                 /\ tags' = Assign(tags, r.stepper, t)
                 /\ uids' = Append(uids, r.stepper)
                 /\ issued' = issued \cup {r.stepper}
                 /\ lastOp' = Op("Put", r.stepper, <<v, t>>, "none", <<>>)
  /\ UNCHANGED <<selector, NDEBUG, rand, call>>

Put(v, t) ==
  /\ ~Aborted
  /\ LET r == PutScan(values, uid_stepper, uid_stepper)
     IN  /\ uid_stepper' = r.stepper
         /\ wrapped' = (wrapped \/ r.stepper <= uid_stepper)
         /\ IF r.full
            THEN /\ UNCHANGED <<values, regulators, tags, uids, issued>>
                 /\ lastOp' = Op("Put", 0 - 1, 0, "container full", <<>>)
            ELSE /\ values' = Assign(values, r.stepper, v)
                 /\ regulators' = Assign(regulators, r.stepper, 1)
                 /\ tags' = Assign(tags, r.stepper, t)
                 /\ uids' = Append(uids, r.stepper)
                 /\ issued' = issued \cup {r.stepper}
                 /\ lastOp' = Op("Put", r.stepper, <<v, t>>, "none", <<>>)
  /\ UNCHANGED <<selector, NDEBUG, rand, call>>

Delete(uid) ==
  /\ ~Aborted
  /\ values' = Erase(values, uid)
  /\ regulators' = Erase(regulators, uid)
  /\ tags' = Erase(tags, uid)
  /\ uids' = Remove(uids, uid)
  /\ lastOp' = Op("Delete", uid, Len(uids) - Len(uids'), "none", <<>>)
  /\ UNCHANGED <<uid_stepper, selector, NDEBUG, rand, issued, wrapped, call>>

\* mutant: Clear also resets the uid counter
ClearResetsStepper ==
  /\ ~Aborted
  /\ values' = EmptyTable
  /\ regulators' = EmptyTable
  /\ tags' = EmptyTable
  /\ uids' = <<>>
  /\ uid_stepper' = 0
  /\ lastOp' = Op("Clear", 0 - 1, 0, "none", <<>>)
  /\ UNCHANGED <<selector, NDEBUG, rand, issued, wrapped, call>>

Clear ==
  /\ ~Aborted
  /\ values' = EmptyTable
  /\ regulators' = EmptyTable
  /\ tags' = EmptyTable
  /\ uids' = <<>>
  /\ lastOp' = Op("Clear", 0 - 1, 0, "none", <<>>)
  /\ UNCHANGED <<uid_stepper, selector, NDEBUG, rand, issued, wrapped, call>>

\* unordered_map::at(uid): throws std::out_of_range when uid is absent
At(table, uid) == IF Has(table, uid) THEN "none" ELSE "out_of_range"

GetVal(uid) ==
  /\ ~Aborted
  /\ lastOp' = Op("GetVal", uid, 0, At(values, uid), <<>>)
  /\ UNCHANGED <<bin, selector, NDEBUG, rand, issued, wrapped, call>>

GetTag(uid) ==
  /\ ~Aborted
  /\ lastOp' = Op("GetTag", uid, 0, At(tags, uid), <<>>)
  /\ UNCHANGED <<bin, selector, NDEBUG, rand, issued, wrapped, call>>

\* mutant: the sum is stored as it is, without std::max(0.0, ...)
Max0Unclamped(x) == x

\* std::max(0.0, x)
Max0(x) == IF x > 0 THEN x ELSE 0

\* mutant: the left operand regulators[uid] is evaluated first and inserts 0.0,
\* after which at(uid) finds the entry
AdjRegulatorLeftFirst(uid, amt) ==
  /\ ~Aborted
  /\ LET regs == Touch(regulators, {uid}, 0)
     IN  /\ Max0(regs[uid] + amt) <= MaxReg
         /\ regulators' = Assign(regs, uid, Max0(regs[uid] + amt))
         /\ lastOp' = Op("AdjRegulator", uid, amt, "none", <<>>)
  /\ UNCHANGED <<values, tags, uids, uid_stepper, selector, NDEBUG, rand, issued, wrapped, call>>

\* regulators[uid] = std::max(0.0, regulators.at(uid) + amt): the right operand
\* of = is evaluated first (C++17), so at() throws before operator[] inserts
AdjRegulator(uid, amt) ==
  /\ ~Aborted
  /\ IF At(regulators, uid) = "none"
     THEN /\ Max0(regulators[uid] + amt) <= MaxReg
          /\ regulators' = Assign(regulators, uid, Max0(regulators[uid] + amt))
          /\ lastOp' = Op("AdjRegulator", uid, amt, "none", <<>>)
     ELSE /\ UNCHANGED regulators
          /\ lastOp' = Op("AdjRegulator", uid, amt, "out_of_range", <<>>)
  /\ UNCHANGED <<values, tags, uids, uid_stepper, selector, NDEBUG, rand, issued, wrapped, call>>

\* mutant: the amount is added to the regulator instead of replacing it
SetRegulatorAdds(uid, amt) ==
  /\ ~Aborted
  /\ IF ~emp_assert(amt >= 0)
     THEN /\ UNCHANGED regulators
          /\ lastOp' = Op("SetRegulator", uid, amt, "abort", <<>>)
     ELSE IF At(regulators, uid) = "none"
     THEN /\ regulators[uid] + amt <= MaxReg
          /\ regulators' = Assign(regulators, uid, regulators[uid] + amt)
          /\ lastOp' = Op("SetRegulator", uid, amt, "none", <<>>)
     ELSE /\ UNCHANGED regulators
          /\ lastOp' = Op("SetRegulator", uid, amt, "out_of_range", <<>>)
  /\ UNCHANGED <<values, tags, uids, uid_stepper, selector, NDEBUG, rand, issued, wrapped, call>>

\* regulators.at(uid) = amt, after emp_assert(amt >= 0.0)
SetRegulator(uid, amt) ==
  /\ ~Aborted
  /\ IF ~emp_assert(amt >= 0)
     THEN /\ UNCHANGED regulators
          /\ lastOp' = Op("SetRegulator", uid, amt, "abort", <<>>)
     ELSE IF At(regulators, uid) = "none"
     THEN /\ regulators' = Assign(regulators, uid, amt)
          /\ lastOp' = Op("SetRegulator", uid, amt, "none", <<>>)
     ELSE /\ UNCHANGED regulators
          /\ lastOp' = Op("SetRegulator", uid, amt, "out_of_range", <<>>)
  /\ UNCHANGED <<values, tags, uids, uid_stepper, selector, NDEBUG, rand, issued, wrapped, call>>

\* mutant: the test of the first loop reversed, no distance is ever cached
MatchesUnfilled(query) == [t \in {} |-> metric(query, t)]

\* the first loop of Match: one metric call for each distinct stored tag
Matches(query) == [t \in {tags[u] : u \in DOMAIN tags} |-> metric(query, t)]

\* mutant: the score is the raw match times the regulator, without + regulator
ScoresNoOffset(query, tgs, regs) ==
  LET matches == Touch(Matches(query), {tgs[u] : u \in Range(uids)}, 0)
  IN  [u \in Range(uids) |-> matches[tgs[u]] * regs[u]]

\* the second loop of Match, on the tables as Touch leaves them:
\* scores[uid] = matches[tags[uid]] * regulators[uid] + regulators[uid]
Scores(query, tgs, regs) ==
  LET matches == Touch(Matches(query), {tgs[u] : u \in Range(uids)}, 0)
  IN  [u \in Range(uids) |-> matches[tgs[u]] * regs[u] + regs[u]]

\* the selector's ThreshRatio template argument: std::ratio<-1,1> unless
\* the container was instantiated with another one
ThreshRatio ==
  IF call.phase = "thresh" THEN call.ThreshRatio ELSE <<ThreshNum, ThreshDen>>

\* the generator after selector(uids, scores, n) with outcome o:
\* RankedSelector holds no generator
SelectRand(r, o, n) ==
  IF selector = "Roulette" THEN RouletteRand(r, o, n) ELSE r

Select(u, scores, n) ==
  IF selector = "Ranked"
  THEN RankedSelector(u, scores, n, ThreshRatio[1], ThreshRatio[2])
  ELSE RouletteSelector(u, scores, n, ThreshRatio[1], ThreshRatio[2])

Match(query, n) ==
  /\ ~Aborted
  /\ tags' = Touch(tags, Range(uids), 0)
  /\ regulators' = Touch(regulators, Range(uids), 0)
  /\ \E r \in Select(uids, Scores(query, tags', regulators'), n) :
       /\ uids' = r.uids
       /\ rand' = SelectRand(rand, r, n)
       /\ lastOp' = Op("Match", query, n, r.err, r.res)
  /\ UNCHANGED <<values, uid_stepper, selector, NDEBUG, issued, wrapped, call>>

\* Every mutating operation and Match, on either selector and either build.
\* The operations read no stored value, so one value is put.
Next ==
  \/ \E t \in Tags : Put("a", t)
  \/ \E uid \in AllUids : Delete(uid)
  \/ Clear
  \/ \E uid \in AllUids, amt \in Amts : AdjRegulator(uid, amt)
  \/ \E uid \in AllUids, amt \in Amts : SetRegulator(uid, amt)
  \/ \E query \in Tags, n \in 0 .. MaxN : Match(query, n)

Spec == Init /\ [][Next]_vars

\* The uid allocator: Put, Delete and Clear with every value and tag.  The
\* other operations change neither the key sets of the tables nor
\* uid_stepper, and these three read neither selector nor NDEBUG.
InitAlloc == Init /\ selector = "Ranked" /\ NDEBUG

NextAlloc ==
  \/ \E v \in Vals, t \in Tags : Put(v, t)
  \/ \E uid \in AllUids : Delete(uid)
  \/ Clear

SpecAlloc == InitAlloc /\ [][NextAlloc]_vars

\* The by-uid accessors and the regulator mutators, on either build.  None
\* of them reads what a value or a tag holds, so one value and one tag are put.
InitReg == Init /\ selector = "Ranked"

NextReg ==
  \/ Put("a", 0)
  \/ \E uid \in AllUids : Delete(uid)
  \/ Clear
  \/ \E uid \in AllUids : GetVal(uid)
  \/ \E uid \in AllUids : GetTag(uid)
  \/ \E uid \in AllUids, amt \in Amts : AdjRegulator(uid, amt)
  \/ \E uid \in AllUids, amt \in Amts : SetRegulator(uid, amt)

SpecReg == InitReg /\ [][NextReg]_vars

\* A selector called on its own, as Selector::operator() allows: on a uids
\* list of up to MaxSelUids distinct uids, a score for each of them, an n and
\* a ThreshRatio tn/1 (tn = -1: no threshold).  The call keeps the arguments
\* and stores every outcome the selector can have on them.
SelectorCall(len, sc, n, tn) ==
  [phase |-> "in", uids |-> [i \in 1 .. len |-> i], scores |-> sc, n |-> n,
   tn |-> tn, td |-> 1, out |-> {}]

InitSel ==
  /\ Constructed
  /\ \E len \in 0 .. MaxSelUids :
       \E sc \in [1 .. len -> 0 .. MaxScore], n \in 0 .. MaxSelN,
          tn \in (0 - 1) .. (MaxScore - 1) :
         call = SelectorCall(len, sc, n, tn)

RankedCall ==
  /\ call.phase = "in" /\ selector = "Ranked"
  /\ call' = [call EXCEPT !.phase = "out",
                          !.out = RankedSelector(call.uids, call.scores, call.n,
                                                 call.tn, call.td)]
  /\ UNCHANGED <<bin, selector, NDEBUG, rand, lastOp, issued, wrapped>>

RouletteCall ==
  /\ call.phase = "in" /\ selector = "Roulette"
  /\ call' = [call EXCEPT !.phase = "out",
                          !.out = RouletteSelector(call.uids, call.scores, call.n,
                                                   call.tn, call.td)]
  /\ \E r \in call'.out : rand' = RouletteRand(rand, r, call.n)
  /\ UNCHANGED <<bin, selector, NDEBUG, lastOp, issued, wrapped>>

NextSel == RankedCall \/ RouletteCall

SpecSel == InitSel /\ [][NextSel]_vars

\* Put taken one pass of its while loop at a time.  call is the position of
\* the Put under way: orig, its arguments and the number of ++uid_stepper
\* done so far.  No other operation runs while a Put is scanning.
Scanning == call.phase = "scan"

\* const uid_t orig = uid_stepper
PutBegin(v, t) ==
  /\ ~Aborted /\ ~Scanning
  /\ call' = [phase |-> "scan", orig |-> uid_stepper, v |-> v, t |-> t, steps |-> 0]
  /\ UNCHANGED <<bin, selector, NDEBUG, rand, lastOp, issued, wrapped>>

\* mutant: a pass of the loop without if (uid_stepper == orig) throw
ScanStepNoThrow ==
  /\ Scanning
  /\ LET next == (uid_stepper + 1) % NumUids
     IN  /\ uid_stepper' = next
         /\ wrapped' = (wrapped \/ next = 0)
         /\ IF Has(values, next)
            THEN /\ call' = [call EXCEPT !.steps = @ + 1]
                 /\ UNCHANGED <<values, regulators, tags, uids, issued, lastOp>>
            ELSE /\ values' = Assign(values, next, call.v)
                 /\ regulators' = Assign(regulators, next, 1)
                 /\ tags' = Assign(tags, next, call.t)
                 /\ uids' = Append(uids, next)
                 /\ issued' = issued \cup {next}
                 /\ lastOp' = Op("Put", next, <<call.v, call.t>>, "none", <<>>)
                 /\ call' = [call EXCEPT !.phase = "done", !.steps = @ + 1]
  /\ UNCHANGED <<selector, NDEBUG, rand>>

\* one evaluation of values.find(++uid_stepper) != values.end(): the uid is
\* taken and is orig (throw), taken (next pass), or free (the rest of Put)
ScanStep ==
  /\ Scanning
  /\ LET next == (uid_stepper + 1) % NumUids
     IN  /\ uid_stepper' = next
         /\ wrapped' = (wrapped \/ next = 0)
         /\ IF Has(values, next)
            THEN /\ IF next = call.orig
                    THEN /\ lastOp' = Op("Put", 0 - 1, 0, "container full", <<>>)
                         /\ call' = [call EXCEPT !.phase = "done", !.steps = @ + 1]
                    ELSE /\ call' = [call EXCEPT !.steps = @ + 1]
                         /\ UNCHANGED lastOp
                 /\ UNCHANGED <<values, regulators, tags, uids, issued>>
            ELSE /\ values' = Assign(values, next, call.v)
                 /\ regulators' = Assign(regulators, next, 1)
                 /\ tags' = Assign(tags, next, call.t)
                 /\ uids' = Append(uids, next)
                 /\ issued' = issued \cup {next}
                 /\ lastOp' = Op("Put", next, <<call.v, call.t>>, "none", <<>>)
                 /\ call' = [call EXCEPT !.phase = "done", !.steps = @ + 1]
  /\ UNCHANGED <<selector, NDEBUG, rand>>

InitScan == Init /\ selector = "Ranked" /\ NDEBUG

NextScan ==
  \/ \E t \in Tags : PutBegin("a", t)
  \/ ScanStep
  \/ \E uid \in AllUids : ~Scanning /\ Delete(uid)
  \/ ~Scanning /\ Clear

SpecScan == InitScan /\ [][NextScan]_vars

\* MatchBin<Val, NextUpMetric<MaxTag>, RankedSelector<std::ratio<tn, 1>>>
\* for every threshold tn in 0..MaxScore: entries are put, regulated,
\* deleted and matched.
InitThresh ==
  /\ Constructed /\ selector = "Ranked"
  /\ \E tn \in 0 .. MaxScore : call = [phase |-> "thresh", ThreshRatio |-> <<tn, 1>>]

NextThresh ==
  \/ \E t \in Tags : Put("a", t)
  \/ \E uid \in AllUids : Delete(uid)
  \/ \E uid \in AllUids, amt \in Amts : SetRegulator(uid, amt)
  \/ \E query \in Tags, n \in 0 .. MaxN : Match(query, n)

SpecThresh == InitThresh /\ [][NextThresh]_vars

\* MatchBin<Val, NextUpMetric<MaxTag>, Selector<std::ratio<tn, 1>>> for
\* either selector and every threshold tn in 0..MaxScore, in a build without
\* assertions: entries of regulator 1.0 are put, deleted and matched, so
\* that a Match finds scores on both sides of the threshold.
InitPerm ==
  /\ Constructed /\ NDEBUG
  /\ \E tn \in 0 .. MaxScore : call = [phase |-> "thresh", ThreshRatio |-> <<tn, 1>>]

NextPerm ==
  \/ \E t \in Tags : Put("a", t)
  \/ \E uid \in AllUids : Delete(uid)
  \/ \E query \in Tags, n \in 0 .. MaxN : Match(query, n)

SpecPerm == InitPerm /\ [][NextPerm]_vars

\* A DynamicSelector on its own: selectors are pushed onto its public
\* vector, its public mode is set, and it is called on a list of up to
\* MaxDynUids uids with scores 0..MaxReg and n in 0..MaxN.
InitDyn ==
  /\ Constructed /\ selector = "Ranked"
  /\ \E len \in 0 .. MaxDynUids : \E sc \in [1 .. len -> 0 .. MaxReg], n \in 0 .. MaxN :
       call = [phase |-> "dyn", selectors |-> <<>>, mode |-> 0,
               uids |-> [i \in 1 .. len |-> i], scores |-> sc, n |-> n, out |-> {}]

\* selectors.push_back(ptr)
PushSelector(kind) ==
  /\ call.phase = "dyn" /\ Len(call.selectors) < MaxChildren
  /\ call' = [call EXCEPT !.selectors = Append(call.selectors, kind)]
  /\ UNCHANGED <<bin, selector, NDEBUG, rand, lastOp, issued, wrapped>>

\* mode = m
SetMode(m) ==
  /\ call.phase = "dyn"
  /\ call' = [call EXCEPT !.mode = m]
  /\ UNCHANGED <<bin, selector, NDEBUG, rand, lastOp, issued, wrapped>>

DynamicCall ==
  /\ call.phase = "dyn"
  /\ call' = [call EXCEPT !.phase = "dispatched",
                          !.out = DynamicSelector(call.selectors, call.mode,
                                                  call.uids, call.scores, call.n)]
  /\ \E o \in call'.out :
       rand' \in IF call.mode >= Len(call.selectors)
                 THEN {rand, RouletteRand(rand, o, call.n)}
                 ELSE IF call.selectors[call.mode + 1] = "Roulette"
                 THEN {RouletteRand(rand, o, call.n)}
                 ELSE {rand}
  /\ UNCHANGED <<bin, selector, NDEBUG, lastOp, issued, wrapped>>

NextDyn ==
  \/ \E kind \in SelectorKinds : PushSelector(kind)
  \/ \E m \in 0 .. MaxChildren : SetMode(m)
  \/ DynamicCall

SpecDyn == InitDyn /\ [][NextDyn]_vars

\* A metric called on its own: Hamming, Streak and AbsIntDiff on every pair
\* of bit strings of width 1..MaxWidth, Streak also on three pairs of width
\* 8, AbsDiff on every pair of ints, NextUp<Max> for the least, the middle
\* and the greatest values of Max on the least and the greatest values of
\* 0..Max.  The call keeps its arguments and stores every outcome the
\* metric can have on them.
NextUpMaxes ==
  {Max \in 0 .. SIZE_MAX :
     \/ Max <= MaxMax
     \/ Max >= SIZE_MAX \div 2 - MaxMax /\ Max <= SIZE_MAX \div 2 + MaxMax
     \/ Max >= SIZE_MAX - MaxMax}

NextUpArgs(Max) == {x \in 0 .. Max : x <= MaxMax \/ x >= Max - MaxMax}

MetricCall(m, Max, a, b) ==
  [phase |-> "query", metric |-> m, Max |-> Max, a |-> a, b |-> b, out |-> {}]

StreakExamples ==
  {<<<<0, 0, 0, 0, 0, 0, 0, 0>>, <<0, 0, 0, 0, 0, 0, 0, 0>>>>,
   <<<<0, 0, 0, 0, 0, 0, 0, 0>>, <<1, 1, 1, 1, 0, 0, 0, 0>>>>,
   <<<<0, 0, 0, 0, 0, 0, 0, 0>>, <<0, 1, 0, 1, 0, 1, 0, 1>>>>}

InitMetric ==
  /\ Constructed /\ selector = "Ranked" /\ NDEBUG
  /\ \/ \E w \in 1 .. MaxWidth : \E a, b \in BitSets(w) :
          \E m \in {"Hamming", "Streak", "AbsIntDiff"} : call = MetricCall(m, 0, a, b)
     \/ \E p \in StreakExamples : call = MetricCall("Streak", 0, p[1], p[2])
     \/ \E a, b \in INT_MIN .. INT_MAX : call = MetricCall("AbsDiff", 0, a, b)
     \/ \E Max \in NextUpMaxes : \E a, b \in NextUpArgs(Max) :
          call = MetricCall("NextUp", Max, a, b)

\* the metric m is called and its outcomes are out
Distance(m, out) ==
  /\ call.phase = "query" /\ call.metric = m
  /\ call' = [call EXCEPT !.phase = "distance", !.out = out]
  /\ UNCHANGED <<bin, selector, NDEBUG, rand, lastOp, issued, wrapped>>

HammingCall == Distance("Hamming", Returns(HammingMetric(call.a, call.b)))
AbsDiffCall == Distance("AbsDiff", AbsDiffMetric(call.a, call.b))
NextUpCall == Distance("NextUp", NextUpOutcomes(call.Max, call.a, call.b))
StreakCall == Distance("Streak", Returns(StreakMetric(call.a, call.b)))
AbsIntDiffCall == Distance("AbsIntDiff", Returns(AbsIntDiffMetric(call.a, call.b)))

NextMetric ==
  \/ HammingCall
  \/ AbsDiffCall
  \/ NextUpCall
  \/ StreakCall
  \/ AbsIntDiffCall

SpecMetric == InitMetric /\ [][NextMetric]_vars

\* =================================================================
\* Properties
\* =================================================================
PutOk(op) == op.op = "Put" /\ op.err = "none"
PutFull(op) == op.op = "Put" /\ op.err = "container full"

\* 1-based position of x in a list that holds it once
Pos(s, x) == CHOOSE i \in 1 .. Len(s) : s[i] = x

\* C1: after every public operation, failed ones included, the uids list
\* holds exactly the keys of the value, tag and regulator tables, holds no
\* uid twice, and Size() is the length of the list and the size of each table.
C1_TablesAgree ==
  /\ Range(uids) = DOMAIN values
  /\ Range(uids) = DOMAIN tags
  /\ Range(uids) = DOMAIN regulators
  /\ \A i, j \in 1 .. Len(uids) : uids[i] = uids[j] => i = j
  /\ Size = Len(uids)
  /\ Size = Cardinality(DOMAIN tags)
  /\ Size = Cardinality(DOMAIN regulators)

\* a Put has just failed on a full container
C1_Witness == PutFull(lastOp) /\ Len(uids) = NumUids /\ selector = "Roulette"

\* C2: a successful Put returns a uid that was in no table and not in the
\* uids list when it was called; every entry live before is still live with
\* its value, tag and regulator, and the new uid has its own.
C2_PutReturnsFreeUid ==
  [][PutOk(lastOp') =>
       /\ ~Has(values, lastOp'.uid)
       /\ ~Has(tags, lastOp'.uid)
       /\ ~Has(regulators, lastOp'.uid)
       /\ lastOp'.uid \notin Range(uids)
       /\ DOMAIN values' = DOMAIN values \cup {lastOp'.uid}
       /\ \A u \in DOMAIN values :
            /\ values'[u] = values[u]
            /\ tags'[u] = tags[u]
            /\ regulators'[u] = regulators[u]
       /\ regulators'[lastOp'.uid] = 1
    ]_vars

\* the same tag was put twice: two live uids carry it, the second just put
C2_Witness ==
  /\ PutOk(lastOp)
  /\ \E u \in DOMAIN tags : u # lastOp.uid /\ tags[u] = tags[lastOp.uid]

\* C3 as claimed: no Put returns a uid that an earlier Put returned.
C3_PutNeverReissues == [][PutOk(lastOp') => lastOp'.uid \notin issued]_vars

\* C3 amended: as long as ++uid_stepper has not overflowed, no Put returns a
\* uid that an earlier Put returned, whatever Delete and Clear removed (Clear
\* does not reset the counter); after an overflow the uid is only free.
C3_PutNeverReissuesBeforeWrap ==
  [][PutOk(lastOp') =>
       /\ ~Has(values, lastOp'.uid)
       /\ (~wrapped' => lastOp'.uid \notin issued)
    ]_vars

\* a Put after a Clear that removed issued uids, the counter not yet wrapped
C3_Witness ==
  /\ PutOk(lastOp)
  /\ ~wrapped
  /\ \E u \in issued : u # lastOp.uid /\ ~Has(values, u)

\* C4 as claimed: no Put ever returns uid 0.
C4_PutNeverReturnsZero == PutOk(lastOp) => lastOp.uid # 0

\* C5: Put fails with "container full" exactly when every uid value is live
\* at the call.
C5_FullIffAllLive ==
  [][lastOp'.op = "Put" =>
       (lastOp'.err = "container full" <=> DOMAIN values = AllUids)
    ]_vars

\* a Put failed, and all uid values are live
C5_Witness == PutFull(lastOp) /\ DOMAIN values = AllUids

\* C6: a Put that fails leaves the tables, the uids list and the uid counter
\* as they were.
C6_FailedPutChangesNothing == [][PutFull(lastOp') => UNCHANGED bin]_vars

\* a Put failed with the counter away from its initial value
C6_Witness == PutFull(lastOp) /\ uid_stepper # 0

\* C7 as claimed: every stored regulator is >= 0.
C7_RegulatorsNonNegative == \A u \in DOMAIN regulators : regulators[u] >= 0

\* C8 as claimed: SetRegulator with a negative value on a live uid is
\* rejected (a failed assertion counts as the rejection) and changes nothing.
C8_NegativeSetRejected ==
  [][(/\ lastOp'.op = "SetRegulator"
      /\ lastOp'.arg < 0
      /\ Has(regulators, lastOp'.uid)) =>
       /\ lastOp'.err # "none"
       /\ UNCHANGED bin
    ]_vars

ByUid(op) == op.op \in {"GetVal", "GetTag", "AdjRegulator", "SetRegulator"}

C10_DeleteRemovesExactlyOne ==
  [][lastOp'.op = "Delete" =>
       /\ lastOp'.err = "none"
       /\ uid_stepper' = uid_stepper
       /\ IF Has(values, lastOp'.uid)
          THEN /\ DOMAIN values' = DOMAIN values \ {lastOp'.uid}
               /\ DOMAIN tags' = DOMAIN tags \ {lastOp'.uid}
               /\ DOMAIN regulators' = DOMAIN regulators \ {lastOp'.uid}
               /\ \A u \in DOMAIN values' :
                    /\ values'[u] = values[u]
                    /\ tags'[u] = tags[u]
                    /\ regulators'[u] = regulators[u]
               /\ Range(uids') = Range(uids) \ {lastOp'.uid}
               /\ Len(uids') = Len(uids) - 1
               /\ \A i, j \in 1 .. Len(uids') :
                    i < j => Pos(uids, uids'[i]) < Pos(uids, uids'[j])
          ELSE UNCHANGED bin
    ]_vars

\* the first of three live uids has just been deleted
C10_Witness ==
  /\ lastOp.op = "Delete"
  /\ lastOp.arg = 1
  /\ Len(uids) = 2
  /\ wrapped

\* ------------------------------------------------------------ Match
IsMatch(op) == op.op = "Match"

\* C11: Match(query, n) hands the selector, for every live uid u, the score
\* r(u) * (metric(query, tag_u) + 1) taken from the regulators as they are
\* at the call, and what Match returns and leaves in the uids list is an
\* outcome of the selector on the list and these scores.
C11_MatchScores ==
  [][IsMatch(lastOp') =>
       LET query == lastOp'.uid
           score == [u \in DOMAIN values |->
                       regulators[u] * (metric(query, tags[u]) + 1)]
       IN  \E r \in Select(uids, score, lastOp'.arg) :
             /\ lastOp'.res = r.res
             /\ lastOp'.err = r.err
             /\ uids' = r.uids]_vars

\* Ranked with n = 1 has returned an entry although another live entry is
\* closer to the query: the regulators, changed before the call, decided
C11_Witness ==
  /\ IsMatch(lastOp) /\ selector = "Ranked" /\ lastOp.err = "none"
  /\ lastOp.arg = 1 /\ Len(lastOp.res) = 1
  /\ \E v \in DOMAIN values :
       metric(lastOp.uid, tags[v]) < metric(lastOp.uid, tags[lastOp.res[1]])

\* C12: Match never fails: every Match returns a list without error, and on
\* an empty container the list is empty for every n, under either selector.
C12_MatchNeverFails ==
  IsMatch(lastOp) =>
    /\ lastOp.err = "none"
    /\ uids = <<>> => lastOp.res = <<>>

\* C13: Match(q, 0) returns the empty list without error whatever the
\* container holds, under RankedSelector (either branch) and RouletteSelector.
C13_MatchZero ==
  (IsMatch(lastOp) /\ lastOp.arg = 0) => (lastOp.err = "none" /\ lastOp.res = <<>>)

\* Match(q, 0) has returned on the selection branch of RankedSelector
C13_Witness ==
  /\ IsMatch(lastOp) /\ lastOp.arg = 0 /\ lastOp.res = <<>>
  /\ selector = "Ranked" /\ LessThanLog2(0, Len(uids))
\* ------------------------------------------------------------ order
\* the change of the uids list that keeps it in insertion order: a Put that
\* succeeds appends its uid, Delete takes its uid out and keeps the others
\* in place, Clear empties the list, any other call leaves it as it is
KeepsInsertionOrder(op, before, after) ==
  IF PutOk(op) THEN after = before \o <<op.uid>>
  ELSE IF op.op = "Delete"
  THEN after = SelectSeq(before, LAMBDA x : x # op.uid)
  ELSE IF op.op = "Clear" THEN after = <<>>
  ELSE after = before

\* C18: after every public operation, Match included, the uids list is in
\* the insertion (Put) order of the live entries.  The list is in insertion
\* order after every operation exactly when every operation changes it as
\* KeepsInsertionOrder says.
C18_UidsInInsertionOrder == [][KeepsInsertionOrder(lastOp', uids, uids')]_vars

\* C18, amended: every operation other than Match keeps the uids list in
\* insertion order; a Match may leave the same uids in another order.
C18_InsertionOrderButMatch ==
  [][IF IsMatch(lastOp')
     THEN Len(uids') = Len(uids) /\ Range(uids') = Range(uids)
     ELSE KeepsInsertionOrder(lastOp', uids, uids')]_vars

\* a Match has left the list out of insertion order: before the uid counter
\* wraps, insertion order is ascending uid order
C18_Witness ==
  /\ IsMatch(lastOp) /\ ~wrapped
  /\ \E i, j \in 1 .. Len(uids) : i < j /\ uids[i] > uids[j]

\* C19: every uid a Match returns is live at the call, so none that Delete
\* or Clear removed before it; and the uid a Put has just returned is
\* returned by the next Match under RankedSelector with n >= Size().
C19_MatchSeesProgramOrder ==
  [][(IsMatch(lastOp') /\ lastOp'.err \in {"none", "undefined"}) =>
       /\ Range(lastOp'.res) \subseteq DOMAIN values
       /\ (PutOk(lastOp) /\ selector = "Ranked" /\ lastOp'.arg >= Size)
             => lastOp.uid \in Range(lastOp'.res)]_vars

\* ------------------------------------------------------------ AdjRegulator
\* C20: AdjRegulator(u, delta) on a live uid sets r(u) to max(0, r(u) + delta),
\* which is never negative, and leaves the regulators of the other uids, the
\* tags, the values, the uids list and the uid counter as they were.
C20_AdjRegulatorClamps ==
  [][(lastOp'.op = "AdjRegulator" /\ lastOp'.uid \in DOMAIN values) =>
       LET u == lastOp'.uid
           sum == regulators[u] + lastOp'.arg
       IN  /\ lastOp'.err = "none"
           /\ DOMAIN regulators' = DOMAIN regulators
           /\ regulators'[u] = (IF sum < 0 THEN 0 ELSE sum)
           /\ regulators'[u] >= 0
           /\ \A w \in DOMAIN regulators \ {u} : regulators'[w] = regulators[w]
           /\ UNCHANGED <<tags, values, uids, uid_stepper>>]_vars

\* AdjRegulator has lowered a regulator to 0 next to another live entry
C20_Witness ==
  /\ lastOp.op = "AdjRegulator" /\ lastOp.err = "none" /\ lastOp.arg < 0
  /\ lastOp.uid \in DOMAIN regulators /\ regulators[lastOp.uid] = 0
  /\ Size >= 2
\* ------------------------------------------------------------ selectors
\* a selector called on its own has returned
Returned(sel) == call.phase = "out" /\ selector = sel

\* the score of uid u is within the threshold of the call
WithinThresh(u) == call.tn < 0 \/ call.scores[u] * call.td <= call.tn

Candidates == {u \in Range(call.uids) : WithinThresh(u)}

\* C14: RankedSelector returns distinct uids of the list, as many as
\* min(n, number of uids with score <= threshold), each with score <=
\* threshold, in non-decreasing score order, and leaves out no uid whose
\* score is strictly smaller than a returned one's; NextUp tags 10, 20, 30
\* (uids 1, 2, 3) queried with 15 and n = 3 come back as 20, 30, 10.
C14_RankedResult ==
  /\ {r.res : r \in RankedSelector(<<1, 2, 3>>,
                   [u \in 1 .. 3 |-> NextUpMetric(1000, 15, 10 * u) + 1],
                   3, ThreshNum, ThreshDen)} = {<<2, 3, 1>>}
  /\ Returned("Ranked") =>
       /\ call.out # {}
       /\ \A r \in call.out :
            LET res == r.res
                want == IF call.n < Cardinality(Candidates)
                        THEN call.n ELSE Cardinality(Candidates)
            IN  /\ r.err = "none"
                /\ Len(res) = want
                /\ \A i, j \in 1 .. Len(res) : res[i] = res[j] => i = j
                /\ Range(res) \subseteq Candidates
                /\ \A i, j \in 1 .. Len(res) :
                     i < j => call.scores[res[i]] <= call.scores[res[j]]
                /\ \A u \in Range(call.uids) \ Range(res), v \in Range(res) :
                     ~(call.scores[u] < call.scores[v])

\* the selection branch has returned fewer than n = 2 uids, the threshold
\* having left one candidate among uids of larger score
C14_Witness ==
  /\ Returned("Ranked") /\ LessThanLog2(call.n, Len(call.uids)) /\ call.n = 2
  /\ Cardinality(Candidates) = 1
  /\ \E r \in call.out : Len(r.res) = 1

\* C15: RankedSelector breaks ties stably in both branches: of two uids of
\* equal score, the one earlier in the uids list at the call is returned
\* earlier, and is the one returned when only one of them fits within n.
C15_RankedTiesStable ==
  Returned("Ranked") =>
    \A r \in call.out :
      \A i, j \in 1 .. Len(call.uids) :
        (/\ i < j
         /\ call.scores[call.uids[i]] = call.scores[call.uids[j]]
         /\ call.uids[j] \in Range(r.res))
        => /\ call.uids[i] \in Range(r.res)
           /\ Pos(r.res, call.uids[i]) < Pos(r.res, call.uids[j])

\* C16: RouletteSelector, when some uid has score <= threshold, returns
\* exactly n uids, repetitions allowed, each a uid of the list with score <=
\* threshold; no uid above the threshold is returned.
C16_RouletteDrawsCandidates ==
  (Returned("Roulette") /\ Candidates # {}) =>
    /\ call.out # {}
    /\ \A r \in call.out :
         /\ r.err = "none"
         /\ Len(r.res) = call.n
         /\ \A i \in 1 .. Len(r.res) : r.res[i] \in Candidates

\* two draws among candidates and uids above the threshold can give the
\* same uid twice as well as two uids
C16_Witness ==
  /\ Returned("Roulette") /\ call.n = 2
  /\ Candidates # {} /\ Candidates # Range(call.uids)
  /\ \E r \in call.out : r.res[1] = r.res[2]
  /\ \E r \in call.out : r.res[1] # r.res[2]

\* C17: RouletteSelector returns the empty list, without error, for every n
\* when no uid of the list has score <= threshold or the list is empty.
C17_RouletteEmptyPartition ==
  (Returned("Roulette") /\ Candidates = {}) =>
    \A r \in call.out : r.err = "none" /\ r.res = <<>>

\* ------------------------------------------------------------ SetRegulator
\* C21: SetRegulator(u, v) with v >= 0 on a live uid u leaves r(u) = v,
\* whatever r(u) was before, and changes no other regulator, no tag, no
\* value, nor the uids list or the uid counter.
C21_SetRegulatorStores ==
  [][(/\ lastOp'.op = "SetRegulator" /\ lastOp'.arg >= 0
      /\ lastOp'.uid \in DOMAIN values) =>
       LET u == lastOp'.uid
       IN  /\ lastOp'.err = "none"
           /\ DOMAIN regulators' = DOMAIN regulators
           /\ regulators'[u] = lastOp'.arg
           /\ \A w \in DOMAIN regulators \ {u} : regulators'[w] = regulators[w]
           /\ UNCHANGED <<tags, values, uids, uid_stepper>>]_vars

\* SetRegulator has stored 0 over the 1.0 of a Put (or any later value),
\* next to another live entry whose regulator is not 0
C21_Witness ==
  /\ lastOp.op = "SetRegulator" /\ lastOp.err = "none" /\ lastOp.arg = 0
  /\ lastOp.uid \in DOMAIN regulators /\ regulators[lastOp.uid] = 0
  /\ \E w \in DOMAIN regulators : regulators[w] # 0

\* ------------------------------------------------------------ Put
\* C29: a Put(v, t) that succeeds with uid u adds exactly one entry:
\* value[u] = v, tag[u] = t, regulator[u] = 1.0, and u is the last element
\* of the uids list; every entry there before keeps its value, tag and
\* regulator, and the uids there before keep their order.
C29_PutAddsOneEntry ==
  [][PutOk(lastOp') =>
       LET u == lastOp'.uid
       IN  /\ u \notin DOMAIN values
           /\ DOMAIN values' = DOMAIN values \cup {u}
           /\ DOMAIN tags' = DOMAIN tags \cup {u}
           /\ DOMAIN regulators' = DOMAIN regulators \cup {u}
           /\ values'[u] = lastOp'.arg[1]
           /\ tags'[u] = lastOp'.arg[2]
           /\ regulators'[u] = 1
           /\ \A w \in DOMAIN values :
                /\ values'[w] = values[w]
                /\ tags'[w] = tags[w]
                /\ regulators'[w] = regulators[w]
           /\ Len(uids') = Len(uids) + 1
           /\ uids'[Len(uids')] = u
           /\ SubSeq(uids', 1, Len(uids)) = uids]_vars

\* a Put has succeeded on a container that held two entries with
\* different values and different tags
C29_Witness ==
  /\ PutOk(lastOp) /\ Len(uids) = 3
  /\ values[uids[1]] # values[uids[2]] /\ tags[uids[1]] # tags[uids[2]]

\* C30: Put always terminates: its scan ends after at most one full cycle
\* of the uid counter (NumUids increments), with a free uid or, when the
\* counter is back at its starting value, with "container full".  Every
\* pass of the loop increments the counter once, so a scan still under way
\* has done fewer than NumUids increments and cannot go on for ever.  (Once
\* the Put has returned, lastOp is its outcome until the next operation.)
C30_PutScanTerminates ==
  /\ Scanning => call.steps < NumUids
  /\ call.phase = "done" =>
       /\ call.steps >= 1 /\ call.steps <= NumUids
       /\ PutOk(lastOp) => lastOp.uid = (call.orig + call.steps) % NumUids
       /\ PutFull(lastOp) => (call.steps = NumUids /\ uid_stepper = call.orig)

\* a scan has gone through the full cycle and Put has thrown
C30_Witness ==
  /\ call.phase = "done" /\ PutFull(lastOp) /\ call.steps = NumUids

\* -----------------------------------------------------------------
\* Metrics (SpecMetric)
Measured(m) == call.phase = "distance" /\ call.metric = m
Zeros8 == <<0, 0, 0, 0, 0, 0, 0, 0>>
LowNibble8 == <<1, 1, 1, 1, 0, 0, 0, 0>>
Alternating8 == <<0, 1, 0, 1, 0, 1, 0, 1>>
\* the one value a call returned, when it has one
Value == (CHOOSE o \in call.out : TRUE).val
Defined == \A o \in call.out : o.err = "none"
Differing(a, b) == Cardinality({i \in 1 .. Len(a) : a[i] # b[i]})

\* C22: every metric output lies in its range: Hamming(W) is the number of
\* differing bits, in 0..W; NextUp(Max) on q, t in 0..Max is in 0..Max;
\* Streak(W) is strictly between 0 and 1 for every pair of W-bit strings,
\* identical and complementary pairs included.
C22_MetricRanges ==
  /\ Measured("Hamming") =>
       /\ Defined
       /\ Value = Differing(call.a, call.b)
       /\ Value \in 0 .. Len(call.a)
  /\ Measured("NextUp") => Defined /\ Value \in 0 .. call.Max
  /\ Measured("Streak") =>
       Defined /\ DLess(<<0, 1>>, Value) /\ DLess(Value, <<1, 1>>)

C24_NextUpFormula ==
  Measured("NextUp") =>
    LET q == call.a
        t == call.b
        back == NextUpOutcomes(call.Max, t, q)
    IN /\ Defined
       /\ Value = ((call.Max + 1) + t - q) % (call.Max + 1)
       /\ Value = 0 <=> t = q
       /\ t = q + 1 => Value = 1
       /\ t = q - 1 => Value = call.Max
       /\ q # t => \A o \in back : o.err = "none" /\ Value + o.val = call.Max + 1

\* C25 as stated: for W = 8, Streak(00000000, 00000000) <
\* Streak(00000000, 00001111) < Streak(00000000, 10101010).
C25_StreakStrictlyIncreasing ==
  Measured("Streak") /\ call.a = Zeros8 =>
    /\ call.b = Zeros8 => DLess(Value, StreakMetric(Zeros8, LowNibble8))
    /\ call.b = LowNibble8 => DLess(Value, StreakMetric(Zeros8, Alternating8))

\* C25, amended: for W = 8, Streak(00000000, 00000000) <
\* Streak(00000000, 00001111) = Streak(00000000, 10101010) = 0.5: in both
\* of the last two pairs the longest equal run is as long as the longest
\* unequal run.
C25_StreakIncreasingThenEqual ==
  Measured("Streak") /\ call.a = Zeros8 =>
    /\ call.b = Zeros8 => DLess(Value, StreakMetric(Zeros8, LowNibble8))
    /\ call.b = LowNibble8 =>
         DEq(Value, StreakMetric(Zeros8, Alternating8)) /\ DEq(Value, <<1, 2>>)
    /\ call.b = Alternating8 => DEq(Value, <<1, 2>>)

\* Streak was called on 00000000 and 00001111
C25_Witness ==
  Measured("Streak") /\ call.a = Zeros8 /\ call.b = LowNibble8

\* C26: AbsDiff returns |q - t| >= 0 for every pair of ints, also when
\* q - t does not fit an int (subtraction and abs modulo 2^w).
C26_AbsDiffNonNegative ==
  Measured("AbsDiff") =>
    LET d == call.a - call.b
    IN /\ \A o \in call.out : o.val >= 0
       /\ d \in INT_MIN .. INT_MAX =>
            Defined /\ Value = (IF d < 0 THEN 0 - d ELSE d)

\* -----------------------------------------------------------------
\* C27: an entry whose regulator is 0 gets score 0 whatever its raw
\* distance; when all regulators are >= 0 that score is minimal among all
\* entries, and a Ranked Match with n >= 1, under any threshold >= 0,
\* returns as its first element an entry of score 0.
C27_ZeroRegulatorMatchesFirst ==
  [][IsMatch(lastOp') /\ lastOp'.err = "none" =>
       LET query == lastOp'.uid
           listed == Range(uids)
           score == Scores(query, tags', regulators')
           zero == {u \in listed : regulators'[u] = 0}
           first == lastOp'.res[1]
       IN  /\ \A u \in zero : score[u] = 0
           /\ (\A u \in listed : regulators'[u] >= 0) =>
                /\ \A u \in zero, v \in listed : score[u] <= score[v]
                /\ zero # {} /\ lastOp'.arg >= 1 =>
                     /\ Len(lastOp'.res) >= 1
                     /\ regulators'[first] * (metric(query, tags'[first]) + 1) = 0]_vars

\* under threshold 0 a Match with n = 1 returned an entry of regulator 0
\* whose tag is not the query, although a regulated entry has the query's tag
C27_Witness ==
  /\ IsMatch(lastOp) /\ lastOp.err = "none" /\ call.phase = "thresh"
  /\ call.ThreshRatio[1] = 0 /\ lastOp.arg = 1 /\ Len(lastOp.res) = 1
  /\ regulators[lastOp.res[1]] = 0
  /\ metric(lastOp.uid, tags[lastOp.res[1]]) > 0
  /\ \E v \in DOMAIN values : regulators[v] > 0 /\ tags[v] = lastOp.uid

\* -----------------------------------------------------------------
\* C28: DynamicSelector returns exactly what children[mode] returns on the
\* same uids, scores and n for the mode current at the call; a call with
\* mode >= number of children (a fresh DynamicSelector, mode 0 and no
\* children, included) is reported as an error and dispatches to no child.
C28_DynamicDispatch ==
  call.phase = "dispatched" =>
    IF call.mode < Len(call.selectors)
    THEN call.out = Child(call.selectors[call.mode + 1], call.uids, call.scores, call.n)
    ELSE \A r \in call.out :
           r.err = "abort" /\ r.res = <<>> /\ r.uids = call.uids

\* -----------------------------------------------------------------
\* the first uid after s, in cyclic increasing order, that is not live
FirstFreeAfter(s) ==
  LET k == CHOOSE k \in 1 .. NumUids :
             /\ (s + k) % NumUids \notin DOMAIN values
             /\ \A j \in 1 .. (k - 1) : (s + j) % NumUids \in DOMAIN values
  IN  (s + k) % NumUids

\* C31: the uid counter is 0 on a fresh container and is changed by
\* nothing but a successful Put, which leaves it at the uid it returns, so
\* it is always the most recently issued uid; a successful Put returns the
\* first free uid in cyclic increasing order strictly after it; as long as
\* the counter has not wrapped, the uid returned is greater than every uid
\* issued before, whatever Deletes and Clears came between.
C31_PutNextFreeUid ==
  [][/\ issued = {} => uid_stepper = 0
     /\ ~PutOk(lastOp') => uid_stepper' = uid_stepper
     /\ PutOk(lastOp') =>
          /\ lastOp'.uid = FirstFreeAfter(uid_stepper)
          /\ uid_stepper' = lastOp'.uid
          /\ ~wrapped' => \A i \in issued : i < lastOp'.uid]_vars

\* before any wrap a Put has skipped no uid and reused none, although the
\* uid issued just before it had been deleted or the container cleared
C31_Witness ==
  /\ PutOk(lastOp) /\ ~wrapped /\ lastOp.uid = NumUids - 1
  /\ DOMAIN values = {lastOp.uid}

\* -----------------------------------------------------------------
\* the scores of the uids of a result, in the result's order
ScoresOf(res) == [i \in 1 .. Len(res) |-> call.scores[res[i]]]

\* C32: on the same uids list, scores, threshold and n the selection-sort
\* branch and the full-sort branch of RankedSelector return results of the
\* same length and the same sequence of scores (the uids can differ only
\* among uids of equal score); what the call returned is one of them.
C32_RankedBranchesAgree ==
  Returned("Ranked") =>
    LET bySelection == SelectionBranch(call.uids, call.scores, call.n, call.tn, call.td)
        bySort == SortBranch(call.uids, call.scores, call.n, call.tn, call.td)
    IN  /\ call.out \in {bySelection, bySort}
        /\ \A r \in bySelection, s \in bySort :
             /\ Len(r.res) = Len(s.res)
             /\ ScoresOf(r.res) = ScoresOf(s.res)

\* under a threshold the two branches return two uids of different scores
\* each, and not the same uids
C32_Witness ==
  /\ Returned("Ranked") /\ call.n = 2 /\ call.tn >= 0
  /\ \E r \in SelectionBranch(call.uids, call.scores, call.n, call.tn, call.td),
        s \in SortBranch(call.uids, call.scores, call.n, call.tn, call.td) :
       /\ Len(r.res) = 2 /\ r.res # s.res
       /\ call.scores[r.res[1]] < call.scores[r.res[2]]

\* -----------------------------------------------------------------
\* how many times uid u is in the list s
Count(s, u) == Cardinality({i \in 1 .. Len(s) : s[i] = u})

\* C33: a Match, with RankedSelector (either branch) or RouletteSelector,
\* only permutes the uids list: every uid is in the list as many times
\* after the call as before it.
C33_MatchPermutesUids ==
  [][IsMatch(lastOp') =>
       /\ Len(uids') = Len(uids)
       /\ \A u \in Range(uids) \cup Range(uids') : Count(uids', u) = Count(uids, u)]_vars

\* RouletteSelector's partitioning has changed the order of the list: it
\* is not in ascending uid order, the order of the Puts before a wrap
C33_Witness ==
  /\ IsMatch(lastOp) /\ selector = "Roulette" /\ ~wrapped /\ Len(uids) = NumUids - 1
  /\ uids[1] > uids[2]

\* -----------------------------------------------------------------
\* C34: in every RouletteSelector call that the public operations of
\* MatchBin lead to, the selector's assertions hold (skew > 0, every score
\* >= 0, 0 <= baseline <= MaxBaseline, score - baseline >= 0 in the
\* partition) and every sampling weight is positive and finite.
C34_RouletteAssertionsHold ==
  [][IsMatch(lastOp') /\ selector = "Roulette" =>
       LET scores == Scores(lastOp'.uid, tags', regulators')
           r == PartitionFrom(uids, scores, 1, 0, ThreshRatio[1], ThreshRatio[2])
           baseline == Baseline(uids, scores)
       IN  /\ RouletteAssertions(uids, scores, ThreshRatio[1], ThreshRatio[2])
           /\ \A p \in 1 .. r.partition :
                LET w == Weight(scores[r.uids[p]], baseline)
                IN  w[2] # 0 /\ DLess(Double(0), w)]_vars

\* -----------------------------------------------------------------
\* RouletteSelector on its own (SpecSel)
\* the uids list and the partition as the partitioning pass leaves them
Partitioned == PartitionFrom(call.uids, call.scores, 1, 0, call.tn, call.td)

\* the least score among the uids within the threshold, as a double
LeastCandidateScore ==
  Double(call.scores[CHOOSE u \in Candidates :
                       \A v \in Candidates : call.scores[u] <= call.scores[v]])

\* C35: after the partitioning pass the prefix uids[0..partition) holds
\* exactly the uids with score <= threshold (and that is the list the call
\* leaves); when the partition is not empty, the baseline min(least score
\* of all uids, MaxBaseline) equals min(least score of the partition,
\* MaxBaseline).
C35_PartitionAndBaseline ==
  Returned("Roulette") =>
    /\ Partitioned.partition = Cardinality(Candidates)
    /\ Range(SubSeq(Partitioned.uids, 1, Partitioned.partition)) = Candidates
    /\ \A o \in call.out : o.uids = Partitioned.uids
    /\ Candidates # {} =>
         DEq(Baseline(call.uids, call.scores), StdMin(LeastCandidateScore, max_baseline))

\* the pass has moved a uid to the front past a first uid that is above
\* the threshold, and the least score is below MaxBaseline
C35_Witness ==
  /\ Returned("Roulette") /\ Candidates # {}
  /\ call.uids[1] \notin Candidates /\ Partitioned.uids[1] \in Candidates
  /\ DLess(LeastCandidateScore, max_baseline)

\* C36 as stated: in every call with a non-empty partition the strongest
\* match of the partition has sampling weight exactly 1/skew.
C36_StrongestWeighsOneOverSkew ==
  (Returned("Roulette") /\ Candidates # {}) =>
    \A p \in 1 .. Partitioned.partition :
      LET score == call.scores[Partitioned.uids[p]]
      IN  DEq(Double(score), LeastCandidateScore) =>
            DEq(Weight(score, Baseline(call.uids, call.scores)), DDiv(Double(1), skew))

\* C36, amended: the strongest match of a non-empty partition, of score m,
\* has the greatest weight of the partition, 1/(skew + m - baseline) with
\* baseline = min(m, MaxBaseline): exactly 1/skew when m = 0; for other
\* m <= MaxBaseline 1/skew up to the rounding of (skew + m) - m; for
\* m > MaxBaseline 1/(skew + m - MaxBaseline), which is less than 1/skew.
C36_StrongestWeight ==
  (Returned("Roulette") /\ Candidates # {}) =>
    LET m == LeastCandidateScore
        baseline == Baseline(call.uids, call.scores)
    IN  \A p \in 1 .. Partitioned.partition :
          LET score == call.scores[Partitioned.uids[p]]
              w == Weight(score, baseline)
          IN  /\ DEq(Double(score), m) \/ DLess(m, Double(score))
              /\ \A q \in 1 .. Partitioned.partition :
                   DEq(Double(call.scores[Partitioned.uids[q]]), m) =>
                     ~DLess(Weight(call.scores[Partitioned.uids[q]], baseline), w)
              /\ DEq(Double(score), m) =>
                   /\ score = 0 => DEq(w, DDiv(Double(1), skew))
                   /\ ~DLess(max_baseline, m) =>
                        /\ DEq(baseline, m)
                        /\ DEq(w, DDiv(Double(1), DSub(DAdd(skew, m), m)))
                   /\ DLess(max_baseline, m) =>
                        /\ DEq(baseline, max_baseline)
                        /\ DEq(w, DDiv(Double(1), DSub(DAdd(skew, m), max_baseline)))
                        /\ DLess(w, DDiv(Double(1), skew))

\* every uid is within the threshold and the least score is above
\* MaxBaseline
C36_Witness ==
  /\ Returned("Roulette") /\ Candidates # {}
  /\ DLess(max_baseline, LeastCandidateScore)

\* -----------------------------------------------------------------
\* C37: a RouletteSelector call that returns has advanced the random
\* generator by exactly n draws, one for each sample, none for the
\* partitioning or the index; no other operation of MatchBin, and no Match
\* under RankedSelector, advances it.
C37_RandAdvancesByDraws ==
  [][IF IsMatch(lastOp') /\ selector = "Roulette" /\ lastOp'.err # "abort"
     THEN rand' = (rand + lastOp'.arg) % RandPeriod
     ELSE rand' = rand]_vars

\* a second Match under RouletteSelector has returned one sample, with two
\* entries to draw from, and the generator has made two draws in all
\* (the first Match having made the other one)
C37_Witness ==
  /\ IsMatch(lastOp) /\ selector = "Roulette" /\ lastOp.err = "none"
  /\ lastOp.arg = 1 /\ Len(lastOp.res) = 1 /\ Len(uids) = 2
  /\ rand = 2

\* -----------------------------------------------------------------
\* C38: the cache of one raw distance for each distinct tag does not change
\* the scores: the score map Match builds through the cache is the map
\* obtained by calling the metric for every live uid on its own, so two
\* live uids with equal tags and equal regulators get equal scores.
C38_CacheKeepsScores ==
  [][IsMatch(lastOp') =>
       LET query == lastOp'.uid
           cached == Scores(query, tags', regulators')
       IN  /\ cached = [u \in Range(uids) |->
                          metric(query, tags[u]) * regulators[u] + regulators[u]]
           /\ \A u, v \in Range(uids) :
                tags[u] = tags[v] /\ regulators[u] = regulators[v]
                  => cached[u] = cached[v]]_vars

\* Match has run on two live uids that share a tag and a regulator, at a
\* distance from the query that is not zero, beside a third of another tag
C38_Witness ==
  /\ IsMatch(lastOp) /\ lastOp.err = "none"
  /\ \E u, v, w \in Range(uids) :
       /\ u # v /\ tags[u] = tags[v] /\ regulators[u] = regulators[v]
       /\ regulators[u] # 0 /\ metric(lastOp.uid, tags[u]) # 0
       /\ tags[w] # tags[u]

\* -----------------------------------------------------------------
\* C39: Match leaves the value table, the tag table, the regulator table,
\* the uid counter and Size() as they were, for every query and n and
\* under either selector; of the container's members only the uids list
\* can differ after it, and the list keeps its elements.
C39_MatchFrame ==
  [][IsMatch(lastOp') =>
       /\ values' = values
       /\ tags' = tags
       /\ regulators' = regulators
       /\ uid_stepper' = uid_stepper
       /\ Cardinality(DOMAIN values') = Size
       /\ Range(uids') = Range(uids)]_vars

\* Match has returned an entry of a full container whose tags and
\* regulators are not all the defaults, after the counter has moved
C39_Witness ==
  /\ IsMatch(lastOp) /\ lastOp.err = "none" /\ Len(lastOp.res) = 1
  /\ Size = NumUids /\ Len(uids) = NumUids /\ uid_stepper # 0
  /\ \E u \in DOMAIN tags : tags[u] # 0
  /\ \E u, v \in DOMAIN regulators : regulators[u] # regulators[v]
====
